---- MODULE Spec2Model ----
(***************************************************************************)
(* Model of update_extract_import.py: a script that reads src/extract.js   *)
(* in text mode, applies two literal str.replace rules to the text, writes *)
(* the text back to the same path and prints a confirmation.               *)
(*                                                                         *)
(* Text is a sequence of one-character strings.  The four literals below   *)
(* are the script's own, character by character.  A file holds such        *)
(* characters and, possibly, bytes that are not UTF-8 (InvalidByte), which *)
(* the read step refuses to decode.  The platform modelled is              *)
(* POSIX (os.linesep = "\n"); text-mode reading applies Python's universal *)
(* newline translation, text-mode writing maps "\n" to os.linesep.         *)
(***************************************************************************)
EXTENDS Integers, Sequences, FiniteSets

(* ------------------------------ bounds --------------------------------- *)

\* Longest initial file, in blocks of InputBlocks, explored by Spec.
MaxBlocks == 3

\* Longest initial file, in blocks, explored by SpecIO (interrupted writes).
MaxBlocksIO == 1

\* Number of successive runs of the script.
MaxRuns == 2

(* -------------------------- the script's literals ---------------------- *)

\* line 9, 50 characters
ImportOld ==
    <<"i","m","p","o","r","t"," ","{"," ","s","e","a","r","c","h","C","o","n",
      "f","i","g"," ","}"," ","f","r","o","m"," ","'",".","/","s","e","a","r",
      "c","h","-","c","o","n","f","i","g",".","j","s","'",";">>

\* line 10, 53 characters
ImportNew ==
    <<"i","m","p","o","r","t"," ","{"," ","g","e","t","S","e","a","r","c","h",
      "C","o","n","f","i","g"," ","}"," ","f","r","o","m"," ","'",".","/","s",
      "e","a","r","c","h","-","c","o","n","f","i","g",".","j","s","'",";">>

\* line 15, 178 characters
UsageOld ==
    <<" "," "," "," ","/","/"," ","B","u","i","l","d"," ","t","h","e"," ","A",
      "u","t","o","t","r","a","d","e","r"," ","s","e","a","r","c","h"," ","U",
      "R","L"," ","w","i","t","h"," ","p","a","r","a","m","e","t","e","r","s",
      "\n"," "," "," "," ","/","/"," ","B","a","s","e","d"," ","o","n"," ",
      "a","c","t","u","a","l"," ","A","u","t","o","t","r","a","d","e","r"," ",
      "U","R","L"," ","f","o","r","m","a","t"," ","f","r","o","m"," ","u","s",
      "e","r","'","s"," ","s","e","a","r","c","h","\n"," "," "," "," ","c",
      "o","n","s","t"," ","s","e","a","r","c","h","P","a","r","a","m","s"," ",
      "="," ","n","e","w"," ","U","R","L","S","e","a","r","c","h","P","a","r",
      "a","m","s","(","s","e","a","r","c","h","C","o","n","f","i","g",")",";">>

\* line 16, 222 characters
UsageNew ==
    <<" "," "," "," ","/","/"," ","B","u","i","l","d"," ","t","h","e"," ","A",
      "u","t","o","t","r","a","d","e","r"," ","s","e","a","r","c","h"," ","U",
      "R","L"," ","w","i","t","h"," ","p","a","r","a","m","e","t","e","r","s",
      "\n"," "," "," "," ","/","/"," ","B","a","s","e","d"," ","o","n"," ",
      "a","c","t","u","a","l"," ","A","u","t","o","t","r","a","d","e","r"," ",
      "U","R","L"," ","f","o","r","m","a","t"," ","f","r","o","m"," ","u","s",
      "e","r","'","s"," ","s","e","a","r","c","h","\n"," "," "," "," ","c",
      "o","n","s","t"," ","s","e","a","r","c","h","C","o","n","f","i","g"," ",
      "="," ","g","e","t","S","e","a","r","c","h","C","o","n","f","i","g","(",
      ")",";","\n"," "," "," "," ","c","o","n","s","t"," ","s","e","a","r",
      "c","h","P","a","r","a","m","s"," ","="," ","n","e","w"," ","U","R","L",
      "S","e","a","r","c","h","P","a","r","a","m","s","(","s","e","a","r","c",
      "h","C","o","n","f","i","g",")",";">>

\* The line print() sends to standard output.
Message == "Updated extract.js to use getSearchConfig()"

\* os.linesep of the platform the script runs on (POSIX).
LineSep == <<"\n">>

\* The parts of the usage literals: the two comment lines (each with its
\* line end), the URLSearchParams line, and the line the usage rule adds
\* between them (with its indentation and line end).
CommentLines == SubSeq(UsageOld, 1, Len(UsageOld) - 59)
UsageLine == SubSeq(UsageOld, Len(UsageOld) - 58, Len(UsageOld))
InsertedLine == SubSeq(UsageNew, Len(CommentLines) + 1, Len(UsageNew) - 59)

(* ----------------------------- str methods ----------------------------- *)

\* sub occurs in s at index i (1-based).
IsAt(s, sub, i) ==
    /\ i >= 1
    /\ i + Len(sub) - 1 <= Len(s)
    /\ s[i] = sub[1]
    /\ SubSeq(s, i, i + Len(sub) - 1) = sub

\* str.find(sub, from): the lowest index >= from where sub occurs, 0 if none.
Find(s, sub, from) ==
    LET hits == {i \in from..(Len(s) - Len(sub) + 1) : IsAt(s, sub, i)}
    IN  IF hits = {} THEN 0
        ELSE CHOOSE i \in hits : \A j \in hits : i <= j

\* str.replace(old, new) for a non-empty old: scan left to right, replace the
\* leftmost occurrence, resume right after it.
RECURSIVE ReplaceFrom(_, _, _, _)
ReplaceFrom(s, old, new, from) ==
    LET j == Find(s, old, from)
    IN  IF j = 0 THEN SubSeq(s, from, Len(s))
        ELSE SubSeq(s, from, j - 1) \o new
                 \o ReplaceFrom(s, old, new, j + Len(old))

\* Mutant: only the first occurrence is replaced, as replace(old, new, 1).
ReplaceFirst(s, old, new) ==
    LET j == Find(s, old, 1)
    IN  IF j = 0 THEN s
        ELSE SubSeq(s, 1, j - 1) \o new \o SubSeq(s, j + Len(old), Len(s))

Replace(s, old, new) == ReplaceFrom(s, old, new, 1)

(* ------------------------------ text I/O ------------------------------- *)

\* A byte of a file that is part of no UTF-8 sequence (0xFF).
InvalidByte == "0xFF"

\* encoding='utf-8' decodes data: f.read raises UnicodeDecodeError otherwise.
Decodable(data) == InvalidByte \notin {data[i] : i \in 1..Len(data)}

\* open(..., 'r') with newline=None: "\r\n" and a lone "\r" are read as "\n".
TranslateOnRead(data) ==
    Replace(Replace(data, <<"\r", "\n">>, <<"\n">>), <<"\r">>, <<"\n">>)

\* open(..., 'w') with newline=None: "\n" is written as os.linesep.
TranslateOnWrite(text) == Replace(text, <<"\n">>, LineSep)

(* --------------------------- the two rules ----------------------------- *)

\* Mutant: the import rule with its two literals exchanged.
UpdateImportSwapped(text) == Replace(text, ImportNew, ImportOld)

\* Mutant: the import rule replaces one occurrence only.
UpdateImportOnce(text) == ReplaceFirst(text, ImportOld, ImportNew)

\* "Update import"
UpdateImport(text) == Replace(text, ImportOld, ImportNew)

\* Mutant: the usage rule's replacement has lost the comment lines.
UpdateUsageNoComment(text) ==
    Replace(text, UsageOld, InsertedLine \o UsageLine)

\* Mutant: the usage rule adds its line after the URLSearchParams line.
UpdateUsageAfter(text) ==
    Replace(text, UsageOld,
            UsageOld \o <<"\n">> \o SubSeq(InsertedLine, 1, Len(InsertedLine) - 1))

\* Mutant: the usage rule matches the URLSearchParams line alone.
UpdateUsageLoose(text) == Replace(text, UsageLine, InsertedLine \o UsageLine)

\* "Update usage"
UpdateUsage(text) == Replace(text, UsageOld, UsageNew)

\* The text one run writes for a file holding data.
Patched(data) == TranslateOnWrite(UpdateUsage(UpdateImport(TranslateOnRead(data))))

(* ------------------------------ inputs --------------------------------- *)

\* The usage block with one character of its first comment changed.
UsageOldReformatted == [UsageOld EXCEPT ![8] = "b"]

\* The usage block as stored in a file with CRLF line endings.
UsageOldCRLF == Replace(UsageOld, <<"\n">>, <<"\r", "\n">>)

InputBlocks ==
    << ImportOld, ImportNew, UsageOld, UsageNew, <<"\n">>, <<"\r">>,
       UsageOldReformatted, UsageOldCRLF >>

RECURSIVE Concat(_)
Concat(bs) ==
    IF bs = <<>> THEN <<>> ELSE InputBlocks[Head(bs)] \o Concat(Tail(bs))

\* Every file content made of at most n blocks.
Inputs(n) ==
    { Concat(bs) : bs \in UNION { [1..k -> 1..Len(InputBlocks)] : k \in 0..n } }

\* Files of at most n blocks, one of them, the first or the last, a byte that
\* is not UTF-8.
Undecodable(n) ==
    IF n = 0 THEN {}
    ELSE UNION { {<<InvalidByte>> \o d, d \o <<InvalidByte>>} : d \in Inputs(n - 1) }

NoFile == [exists |-> FALSE, data |-> <<>>]
FileOf(data) == [exists |-> TRUE, data |-> data]

(* ------------------------------- state --------------------------------- *)

VARIABLES
    file,       \* src/extract.js on disk: [exists, data]
    readable,   \* whether the process may open the file for reading
    writable,   \* whether the path may be opened for writing
    pc,         \* the statement the script has reached
    content,    \* the script's variable `content`
    stdout,     \* lines printed by the current run
    failedAt,   \* the statement that raised, "none" if none did
    hist        \* the file as each run found it: hist[1] is the initial file

vars == <<file, readable, writable, pc, content, stdout, failedAt, hist>>

\* The file as the current run found it, and the number of the current run.
prev == hist[Len(hist)]
run == Len(hist)

\* Process exit status: 0 at the end of the script, 1 on an uncaught
\* exception, -1 while running.
ExitCode == IF pc = "done" THEN 0 ELSE IF pc = "failed" THEN 1 ELSE -1

InitWith(inputs) ==
    /\ file \in {NoFile} \cup {FileOf(d) : d \in inputs}
    /\ readable \in BOOLEAN
    /\ writable \in BOOLEAN
    /\ pc = "start"
    /\ content = <<>>
    /\ stdout = <<>>
    /\ failedAt = "none"
    /\ hist = <<file>>

Init == InitWith(Inputs(MaxBlocks) \cup Undecodable(MaxBlocks))

InitIO == InitWith(Inputs(MaxBlocksIO) \cup Undecodable(MaxBlocksIO))

(* ------------------------------ actions -------------------------------- *)

\* with open('src/extract.js', 'r', encoding='utf-8') as f: content = f.read()
Read ==
    /\ pc = "start"
    /\ file.exists
    /\ readable
    /\ Decodable(file.data)
    /\ content' = TranslateOnRead(file.data)
    /\ pc' = "read"
    /\ UNCHANGED <<file, readable, writable, stdout, failedAt, hist>>

\* Mutant: a missing file is read as an empty one.
OpenReadMissingAsEmpty ==
    /\ pc = "start"
    /\ \/ /\ ~file.exists
          /\ content' = <<>>
          /\ pc' = "read"
          /\ UNCHANGED failedAt
       \/ /\ file.exists
          /\ ~readable
          /\ pc' = "failed"
          /\ failedAt' = "open_r"
          /\ UNCHANGED content
    /\ UNCHANGED <<file, readable, writable, stdout, hist>>

\* open(..., 'r') raises FileNotFoundError (no file) or PermissionError (a
\* file the process may not read); nothing catches it.
OpenReadFail ==
    /\ pc = "start"
    /\ ~file.exists \/ ~readable
    /\ pc' = "failed"
    /\ failedAt' = "open_r"
    /\ UNCHANGED <<file, readable, writable, content, stdout, hist>>

\* f.read() raises UnicodeDecodeError on bytes that are not UTF-8; nothing
\* catches it, and the file, opened for reading, is as it was.
DecodeFail ==
    /\ pc = "start"
    /\ file.exists
    /\ readable
    /\ ~Decodable(file.data)
    /\ pc' = "failed"
    /\ failedAt' = "read"
    /\ UNCHANGED <<file, readable, writable, content, stdout, hist>>

\* content = content.replace(<import literals>)
ImportRule ==
    /\ pc = "read"
    /\ content' = UpdateImport(content)
    /\ pc' = "import"
    /\ UNCHANGED <<file, readable, writable, stdout, failedAt, hist>>

\* content = content.replace(<usage literals>)
UsageRule ==
    /\ pc = "import"
    /\ content' = UpdateUsage(content)
    /\ pc' = "usage"
    /\ UNCHANGED <<file, readable, writable, stdout, failedAt, hist>>

\* open('src/extract.js', 'w', ...) creates or truncates the file.
OpenWrite ==
    /\ pc = "usage"
    /\ writable
    /\ file' = FileOf(<<>>)
    /\ pc' = "opened"
    /\ UNCHANGED <<readable, writable, content, stdout, failedAt, hist>>

\* open(..., 'w') raises PermissionError: the file is not touched.
OpenWriteFail ==
    /\ pc = "usage"
    /\ ~writable
    /\ pc' = "failed"
    /\ failedAt' = "open_w"
    /\ UNCHANGED <<file, readable, writable, content, stdout, hist>>

\* f.write(content), flushed when the with block closes the file.
Write ==
    /\ pc = "opened"
    /\ file' = FileOf(TranslateOnWrite(content))
    /\ pc' = "written"
    /\ UNCHANGED <<readable, writable, content, stdout, failedAt, hist>>

\* Mutant: the OSError of the flush is swallowed and the script goes on.
WriteFailSwallowed ==
    /\ pc = "opened"
    /\ \E k \in 0..(Len(TranslateOnWrite(content)) - 1) :
           file' = FileOf(SubSeq(TranslateOnWrite(content), 1, k))
    /\ pc' = "written"
    /\ failedAt' = "write"
    /\ UNCHANGED <<readable, writable, content, stdout, hist>>

\* The flush raises OSError after k characters reached the file.
WriteFail ==
    /\ pc = "opened"
    /\ \E k \in 0..(Len(TranslateOnWrite(content)) - 1) :
           file' = FileOf(SubSeq(TranslateOnWrite(content), 1, k))
    /\ pc' = "failed"
    /\ failedAt' = "write"
    /\ UNCHANGED <<readable, writable, content, stdout, hist>>

\* print('Updated extract.js to use getSearchConfig()'), then exit 0.
PrintMessage ==
    /\ pc = "written"
    /\ stdout' = Append(stdout, Message)
    /\ pc' = "done"
    /\ UNCHANGED <<file, readable, writable, content, failedAt, hist>>

\* The script is started again on the file the last run left.
Rerun ==
    /\ pc = "done"
    /\ run < MaxRuns
    /\ hist' = Append(hist, file)
    /\ pc' = "start"
    /\ content' = <<>>
    /\ stdout' = <<>>
    /\ UNCHANGED <<file, readable, writable, failedAt>>

Next ==
    \/ Read
    \/ OpenReadFail
    \/ DecodeFail
    \/ ImportRule
    \/ UsageRule
    \/ OpenWrite
    \/ OpenWriteFail
    \/ Write
    \/ PrintMessage
    \/ Rerun

NextIO == Next \/ WriteFail

\* Runs whose write reaches the file whole.
Spec == Init /\ [][Next]_vars

\* Runs whose write may be interrupted, on short files.
SpecIO == InitIO /\ [][NextIO]_vars

(* --------------------------- claim vocabulary -------------------------- *)

\* The first file, the file before the current run as bytes, and the text
\* the current run read from it.
initial == hist[1]
before == prev.data
beforeText == TranslateOnRead(prev.data)

\* The current run ended with exit status 0.
Succeeded == pc = "done"

\* Every index at which sub occurs in s, how many there are, and whether
\* there is one.
Occurrences(s, sub) == {i \in 1..(Len(s) - Len(sub) + 1) : IsAt(s, sub, i)}
Count(s, sub) == Cardinality(Occurrences(s, sub))
Contains(s, sub) == Occurrences(s, sub) # {}

StartsWith(s, p) == Len(p) <= Len(s) /\ SubSeq(s, 1, Len(p)) = p
EndsWith(s, p) ==
    Len(p) <= Len(s) /\ SubSeq(s, Len(s) - Len(p) + 1, Len(s)) = p
IsStrictPrefix(p, s) == Len(p) < Len(s) /\ SubSeq(s, 1, Len(p)) = p

\* The scenario of C3: the import line, other lines, the URLSearchParams line.
IsScenario(s) ==
    /\ StartsWith(s, ImportOld \o <<"\n">>)
    /\ EndsWith(s, <<"\n">> \o UsageLine)

\* What C3 expects of a scenario text s: the import line replaced, the new
\* line put right before the URLSearchParams line, the rest as it was.
ScenarioResult(s) ==
    ImportNew \o SubSeq(s, Len(ImportOld) + 1, Len(s) - Len(UsageLine))
              \o InsertedLine \o UsageLine

(* -------------------------------- C1 ----------------------------------- *)

\* C1 as stated: a file with the import search literal exactly once holds,
\* after a successful run, the import replacement literal exactly once and
\* the search literal not at all.
C1_Original ==
    (Succeeded /\ prev.exists /\ Count(before, ImportOld) = 1)
        => /\ Count(file.data, ImportNew) = 1
           /\ Count(file.data, ImportOld) = 0

\* C1 amended: a file with the import search literal exactly once holds,
\* after a successful run, no import search literal and one more import
\* replacement literal than before the run.
C1_ImportReplaced ==
    (Succeeded /\ prev.exists /\ Count(before, ImportOld) = 1)
        => /\ Count(file.data, ImportNew) = Count(before, ImportNew) + 1
           /\ Count(file.data, ImportOld) = 0

\* A run succeeded on a file with the search literal once and the
\* replacement literal already present.
C1_Witness ==
    /\ Succeeded
    /\ Count(before, ImportOld) = 1
    /\ Count(before, ImportNew) = 1
    /\ Count(file.data, ImportNew) = 2

(* -------------------------------- C2 ----------------------------------- *)

\* C2 as stated: a file with the usage search literal exactly once holds,
\* after a successful run, the usage replacement literal exactly once.
C2_Original ==
    (Succeeded /\ prev.exists /\ Count(before, UsageOld) = 1)
        => Count(file.data, UsageNew) = 1

\* C2 amended: when the text the run reads (line ends "\r\n" and "\r" read
\* as "\n") holds the usage search literal exactly once, the file holds,
\* after a successful run, one more usage replacement literal than that
\* text did.
C2_UsageReplaced ==
    (Succeeded /\ prev.exists /\ Count(beforeText, UsageOld) = 1)
        => Count(file.data, UsageNew) = Count(beforeText, UsageNew) + 1

\* A run succeeded on a file with the usage search literal once and the
\* usage replacement literal already present.
C2_Witness ==
    /\ Succeeded
    /\ Count(before, UsageOld) = 1
    /\ Count(before, UsageNew) = 1
    /\ Count(file.data, UsageNew) = 2

(* -------------------------------- C3 ----------------------------------- *)

\* C3 as stated: on a file that is the import line, other lines and the
\* URLSearchParams line, a run replaces the import line, puts the new line
\* right before the URLSearchParams line and changes nothing else.
C3_Original ==
    (Succeeded /\ prev.exists /\ IsScenario(before))
        => file.data = ScenarioResult(before)

\* C3 amended: the same, provided the other lines end with the two comment
\* lines of the usage search literal and the text read holds each search
\* literal once; the rest of the file is the text as read (line ends "\r\n"
\* and "\r" written as "\n").
C3_Scenario ==
    (/\ Succeeded
     /\ prev.exists
     /\ IsScenario(before)
     /\ EndsWith(beforeText, UsageOld)
     /\ Count(beforeText, ImportOld) = 1
     /\ Count(beforeText, UsageOld) = 1)
        => file.data = ScenarioResult(beforeText)

\* A run succeeded on the scenario file whose other lines are the two
\* comment lines, and put the new line before the URLSearchParams line.
C3_Witness ==
    /\ Succeeded
    /\ before = ImportOld \o <<"\n">> \o UsageOld
    /\ file.data = ImportNew \o <<"\n">> \o UsageNew

(* -------------------------------- C4 ----------------------------------- *)

\* C4: on a file with neither search literal, a successful run leaves the
\* file as it was and prints the confirmation.
C4_Original ==
    (/\ Succeeded
     /\ prev.exists
     /\ ~Contains(before, ImportOld)
     /\ ~Contains(before, UsageOld))
        => /\ file = prev
           /\ stdout = <<Message>>

(* -------------------------------- C5 ----------------------------------- *)

\* C5: when the first file holds both search literals, a second run in
\* succession leaves the file as the first run left it.
C5_SecondRunNoOp ==
    (/\ run >= 2
     /\ Succeeded
     /\ Contains(initial.data, ImportOld)
     /\ Contains(initial.data, UsageOld))
        => /\ file = hist[2]
           /\ content = TranslateOnRead(hist[2].data)

\* A second run ended on a file that held both search literals, which the
\* first run had changed.
C5_Witness ==
    /\ run = 2
    /\ Succeeded
    /\ Contains(initial.data, ImportOld)
    /\ Contains(initial.data, UsageOld)
    /\ hist[2] # initial
    /\ file = hist[2]

(* -------------------------------- C6 ----------------------------------- *)

\* C6: when the file does not exist, the run ends at the read step (the open
\* for reading) with a non-zero exit status: no replacement, write or print
\* step is taken, no file is created and nothing is printed.
C6_MissingFile ==
    (~initial.exists)
        => /\ pc \in {"start", "failed"}
           /\ pc = "failed" => (failedAt = "open_r" /\ ExitCode = 1)
           /\ file = NoFile
           /\ content = <<>>
           /\ stdout = <<>>

\* A run failed at the read step on a missing file.
C6_Witness ==
    /\ ~initial.exists
    /\ pc = "failed"
    /\ failedAt = "open_r"
    /\ ~file.exists

(* -------------------------------- C7 ----------------------------------- *)

\* C7 as stated, seen once two runs in succession have ended: some initial
\* file makes the second run change what the first run left.
C7_Original ==
    (run >= 2 /\ Succeeded)
        => \E d \in Inputs(MaxBlocks) : Patched(Patched(d)) # Patched(d)

\* C7 amended: for every initial file, a second run in succession leaves the
\* file as the first run left it.
C7_Idempotent ==
    (run >= 2 /\ Succeeded) => file = prev

\* A second run ended on a file that held the import search literal without
\* the usage search literal, which the first run had changed.
C7_Witness ==
    /\ run = 2
    /\ Succeeded
    /\ Contains(initial.data, ImportOld)
    /\ ~Contains(initial.data, UsageOld)
    /\ Contains(initial.data, UsageLine)
    /\ prev # initial
    /\ file = prev

(* -------------------------------- C8 ----------------------------------- *)

\* C8: on a file with the import search literal and without the usage
\* search literal, a run succeeds and prints, the import lines are replaced,
\* the URLSearchParams lines stay and no getSearchConfig() line is added.
C8_Original ==
    (/\ Succeeded
     /\ prev.exists
     /\ Contains(before, ImportOld)
     /\ ~Contains(before, UsageOld))
        => /\ stdout = <<Message>>
           /\ ~Contains(file.data, ImportOld)
           /\ Count(file.data, ImportNew)
                  = Count(before, ImportNew) + Count(before, ImportOld)
           /\ Count(file.data, UsageLine) = Count(before, UsageLine)
           /\ Count(file.data, InsertedLine) = Count(before, InsertedLine)

(* -------------------------------- C9 ----------------------------------- *)

\* C9: when opening for writing or writing fails, the run has ended with a
\* non-zero exit status and printed nothing, it takes no further step (no
\* retry, no rollback), and the file is as the run found it (open failed)
\* or cut short (write failed): a strict prefix of the text being written,
\* not what the run found.
C9_WriteFailure ==
    (failedAt \in {"open_w", "write"})
        => /\ pc = "failed"
           /\ ExitCode = 1
           /\ stdout = <<>>
           /\ ~ENABLED NextIO
           /\ failedAt = "open_w" => file = prev
           /\ failedAt = "write" =>
                  /\ file.exists
                  /\ IsStrictPrefix(file.data, TranslateOnWrite(content))

\* A write failed half way: the file is neither empty nor what it was.
C9_Witness ==
    /\ failedAt = "write"
    /\ pc = "failed"
    /\ file.data # <<>>
    /\ file # prev
    /\ Contains(before, ImportOld)

(* -------------------------------- C10 ---------------------------------- *)

\* C10: after a successful run the file holds neither search literal.
C10_NoSearchLiteralLeft ==
    Succeeded
        => /\ ~Contains(file.data, ImportOld)
           /\ ~Contains(file.data, UsageOld)

\* A run succeeded on a file that held the import search literal twice and the usage search literal.
C10_Witness ==
    /\ Succeeded
    /\ Count(before, ImportOld) >= 2
    /\ Count(beforeText, UsageOld) >= 1
    /\ file # prev

====
